---- MODULE Spec2Model ----
(***************************************************************************)
(* Model of plxread.cpp: the sample reader of PLX files.  main() reads the *)
(* file header and the three channel-header tables, then makes four scan   *)
(* passes over the data blocks (SAMPLE 1..4), each a loop of fread calls   *)
(* on one FILE* with one shared block header `db` and one shared payload   *)
(* buffer `buf`.  The file is modelled byte by byte from the start of the  *)
(* data blocks; the reader decodes every block header from the bytes at    *)
(* its cursor, as fread into the struct does.                              *)
(***************************************************************************)
EXTENDS Integers, Sequences, FiniteSets, TLC

\* ------------------------------------------------------------------ sizes

\* sizeof(PL_DataBlockHeader): short, short, long, short x 4  (Win32: 16 bytes)
HeaderSize == 16
\* short buf[256]
BufCap == 256
\* sizeof of the Plexon.h structures of the header region
FileHeaderSize == 7504
ChanHeaderSize == 1020
EventHeaderSize == 296
SlowHeaderSize == 296
\* block types
PL_SingleWFType == 1
PL_ExtEventType == 4
PL_ADDataType == 5

\* ----------------------------------------------------------------- bounds

\* the largest number of data blocks written to a file
MaxBlocks == 2
\* ... and to a file whose header holds a negative channel count
MaxBlocksBadHeader == 1

\* ------------------------------------------------------------- arithmetic

Min(a, b) == IF a <= b THEN a ELSE b

\* a 16-bit value, signed or unsigned, as little-endian bytes
EncShort(v) == << (v % 65536) % 256, (v % 65536) \div 256 >>

\* two bytes read as a signed short
DecShort(lo, hi) ==
  LET u == lo + 256 * hi IN IF u >= 32768 THEN u - 65536 ELSE u

\* a signed 32-bit value as little-endian bytes
EncLong(v) == EncShort(v % 65536) \o EncShort(v \div 65536)

\* four bytes read as a signed 32-bit long
DecLong(b1, b2, b3, b4) == (b1 + 256 * b2) + 65536 * DecShort(b3, b4)

\* C's int division, which truncates toward zero
CDiv(a, b) ==
  LET q == (IF a < 0 THEN -a ELSE a) \div (IF b < 0 THEN -b ELSE b)
  IN IF (a < 0) = (b < 0) THEN q ELSE -q

\* ------------------------------------------------------------ file format

\* A data block as it is written: the PL_DataBlockHeader fields and the
\* waveform values that follow the header.
Block(type, upper, ts, chan, unit, nwf, nwords, payload) ==
  [Type |-> type, UpperByteOf5ByteTimestamp |-> upper, TimeStamp |-> ts,
   Channel |-> chan, Unit |-> unit, NumberOfWaveforms |-> nwf,
   NumberOfWordsInWaveform |-> nwords, payload |-> payload]

\* the bytes of a sequence of shorts
EncWords(ws) ==
  [i \in 1..(2 * Len(ws)) |-> EncShort(ws[(i + 1) \div 2])[((i - 1) % 2) + 1]]

\* the bytes of a block: the header, field by field, then the waveform values
EncodeBlock(b) ==
  EncShort(b.Type) \o EncShort(b.UpperByteOf5ByteTimestamp) \o EncLong(b.TimeStamp)
    \o EncShort(b.Channel) \o EncShort(b.Unit) \o EncShort(b.NumberOfWaveforms)
    \o EncShort(b.NumberOfWordsInWaveform) \o EncWords(b.payload)

RECURSIVE EncodeBlocks(_)
EncodeBlocks(bs) ==
  IF bs = << >> THEN << >> ELSE EncodeBlock(Head(bs)) \o EncodeBlocks(Tail(bs))

\* The blocks the files are made of.  Any file parses as blocks, so these are
\* chosen for what the reader does with them: matching and non-matching
\* spikes, events and a/d records, with and without waveforms, one waveform
\* longer than buf, and waveform counts and lengths that are zero or negative.
BlockChoices ==
  { Block(PL_SingleWFType, 0, 100, 1, 1, 1, 3, <<10, -10, 5>>),
    Block(PL_SingleWFType, 1, -2147483643, 1, 1, 0, 0, << >>),
    Block(PL_SingleWFType, 0, 200, 1, 2, 1, -1, << >>),
    Block(PL_ExtEventType, 0, 300, 1, 1, -1, 3, << >>),
    Block(PL_ADDataType, 0, 1000, 0, 0, 1, 3, <<4096, 0, -4096>>),
    Block(PL_ADDataType, 0, 2000, 0, 0, 0, 2, << >>),
    Block(PL_ADDataType, 1, 3000, 0, 0, 2, 2, <<1, 2, 3, 4>>),
    Block(PL_SingleWFType, 0, 400, 1, 1, 1, BufCap + 1,
          [k \in 1..(BufCap + 1) |-> (k % 5) - 2]) }

\* how many bytes the end of the file lacks
CutChoices == {0, 3}

\* The header region: the PL_FileHeader fields the program reads and the
\* slow channel headers (Channel, Gain, ADFreq of each).
SlowHeader(chan, gain, adfreq) == [Channel |-> chan, Gain |-> gain, ADFreq |-> adfreq]

FileHeader(freq, ndsp, nev, slow) ==
  [ADFrequency |-> freq, NumDSPChannels |-> ndsp, NumEventChannels |-> nev,
   NumSlowChannels |-> Len(slow), slow |-> slow]

HeaderChoices ==
  { FileHeader(40000, 1, 1, <<SlowHeader(0, 1, 20000)>>),
    FileHeader(40000, 2, 0, <<SlowHeader(1, 1, 1000), SlowHeader(0, 2, 40000)>>),
    FileHeader(40000, 0, 2, << >>),
    FileHeader(40000, 1, 0, <<SlowHeader(0, 0, 1000)>>) }

\* a header whose event channel count is negative: no table is written for it
BadHeaderChoices == { FileHeader(40000, 0, -1, << >>) }

\* what an uninitialized byte of the stack may hold
JunkBytes == {0, 204}

\* where the data blocks start in a file: after the file header and the DSP,
\* event and slow channel headers
TableSize(n, size) == IF n > 0 THEN n * size ELSE 0

LayoutStart(f) ==
  FileHeaderSize + TableSize(f.fh.NumDSPChannels, ChanHeaderSize)
    + TableSize(f.fh.NumEventChannels, EventHeaderSize)
    + TableSize(f.fh.NumSlowChannels, SlowHeaderSize)

\* the length of a file; f.lack is what its header region lacks at the end
FileLen(f) == LayoutStart(f) - f.lack + Len(f.data)

\* The byte at an offset of the file.  The bytes of the header region are
\* kept as fields, not as bytes: read as a data block they are zero.
FileByte(f, off) ==
  IF off >= LayoutStart(f) /\ off < FileLen(f)
  THEN f.data[off - LayoutStart(f) + 1] ELSE 0

FileBytes(f, off, n) ==
  IF off >= LayoutStart(f) /\ off + n <= FileLen(f)
  THEN SubSeq(f.data, off - LayoutStart(f) + 1, off - LayoutStart(f) + n)
  ELSE [i \in 1..n |-> FileByte(f, off + i - 1)]

\* the data of the files: up to n blocks, the end cut short
Data(n) ==
  { SubSeq(bytes, 1, Len(bytes) - c) :
      bytes \in { EncodeBlocks(bs) :
                    bs \in UNION { [1..k -> BlockChoices] : k \in 0..n } },
      c \in CutChoices }

\* The files: a header region and the data; a header with a negative count
\* and the data; a file that ends before its last slow channel header.
Files ==
  { [fh |-> h, data |-> d, lack |-> 0] : h \in HeaderChoices, d \in Data(MaxBlocks) }
    \cup { [fh |-> h, data |-> d, lack |-> 0] :
             h \in BadHeaderChoices, d \in Data(MaxBlocksBadHeader) }
    \cup { [fh |-> h, data |-> << >>, lack |-> SlowHeaderSize] :
             h \in { g \in HeaderChoices : g.NumSlowChannels > 0 } }

\* ---------------------------------------------------------- program state

VARIABLES
  pc,                  \* where main() is
  file,                \* test1.plx
  fp,                  \* the FILE*: its position and its end-of-file indicator
  fh,                  \* PL_FileHeader fh
  slowheaders,         \* PL_SlowChannelHeader slowheaders[64], the entries read
  db,                  \* PL_DataBlockHeader db, as its 16 bytes
  buf,                 \* short buf[256], as the bytes written to it so far
  junk,                \* the byte the unwritten part of buf holds
  datastart, nbuf, count,
  channel_to_extract, unit_to_extract, event_to_extract,
  ad,                  \* header_num, gain, adfreq, ticks_in_adcycle, first_timestamp
  out,                 \* the lines printed by each of SAMPLE 1..4
  hist                 \* the loop iterations of the scan in progress

vars == << pc, file, fp, fh, slowheaders, db, buf, junk, datastart, nbuf, count,
           channel_to_extract, unit_to_extract, event_to_extract, ad, out, hist >>

Scans == {"sample1", "sample2", "sample3", "sample4"}

\* ---------------------------------------------------- PL_DataBlockHeader

Type(d) == DecShort(d[1], d[2])
UpperByteOf5ByteTimestamp(d) == DecShort(d[3], d[4])
TimeStamp(d) == DecLong(d[5], d[6], d[7], d[8])
Channel(d) == DecShort(d[9], d[10])
Unit(d) == DecShort(d[11], d[12])
NumberOfWaveforms(d) == DecShort(d[13], d[14])
NumberOfWordsInWaveform(d) == DecShort(d[15], d[16])

\* -------------------------------------------------------------- the FILE*

\* fread(dst, size, 1, fp): the bytes it transfers.  `size` is the int the
\* program computes; a negative one, converted to size_t, is larger than any
\* file.
FreadGot(f, p, size) ==
  LET avail == IF FileLen(f) > p.pos THEN FileLen(f) - p.pos ELSE 0
  IN IF size < 0 THEN avail ELSE Min(size, avail)

\* (a reader that skips `size` bytes from where it is instead of reading them)
FreadSkip(f, p, size) == [pos |-> p.pos + size, eof |-> p.eof]

\* ... and the FILE* after it: the end-of-file indicator is set by a read
\* that asks for more than is left
Fread(f, p, size) ==
  [pos |-> p.pos + FreadGot(f, p, size),
   eof |-> p.eof \/ size < 0 \/ FreadGot(f, p, size) < size]

\* fseek(fp, off, SEEK_SET) clears the end-of-file indicator
Fseek(off) == [pos |-> off, eof |-> FALSE]

\* the bytes of an array after `bytes` are read to its start
Store(old, bytes) == bytes \o SubSeq(old, Len(bytes) + 1, Len(old))

\* buf[i], i from 0
BufShort(b, i) ==
  DecShort(IF 2 * i < Len(b) THEN b[2 * i + 1] ELSE junk,
           IF 2 * i + 1 < Len(b) THEN b[2 * i + 2] ELSE junk)

\* --------------------------------------------------------------- headers

\* (a datastart that leaves the slow channel headers out)
DataStartNoSlow(h) ==
  FileHeaderSize + h.NumDSPChannels * ChanHeaderSize
    + h.NumEventChannels * EventHeaderSize

\* int datastart = sizeof(fh) + ...
DataStart(h) ==
  FileHeaderSize + h.NumDSPChannels * ChanHeaderSize
    + h.NumEventChannels * EventHeaderSize
    + h.NumSlowChannels * SlowHeaderSize

\* the FILE* after the DSP and the event channel headers are read
AfterEventHeaders(f, p, h) ==
  LET p1 == IF h.NumDSPChannels > 0
            THEN Fread(f, p, h.NumDSPChannels * ChanHeaderSize) ELSE p
  IN IF h.NumEventChannels > 0
     THEN Fread(f, p1, h.NumEventChannels * EventHeaderSize) ELSE p1

\* the three channel-table reads, each made only for a count that passes its test
ReadTables(f, p, h) ==
  IF h.NumSlowChannels # 0
  THEN Fread(f, AfterEventHeaders(f, p, h), h.NumSlowChannels * SlowHeaderSize)
  ELSE AfterEventHeaders(f, p, h)

\* slowheaders after memset and the read of the table: the headers the file
\* holds in full, the others zero
ReadSlowHeaders(f, p, h) ==
  [i \in 1..h.NumSlowChannels |->
     IF p.pos + i * SlowHeaderSize <= FileLen(f) THEN f.fh.slow[i]
     ELSE SlowHeader(0, 0, 0)]

Init ==
  /\ pc = "open"
  /\ file \in Files
  /\ junk \in JunkBytes
  /\ fp = [pos |-> 0, eof |-> FALSE]
  /\ fh = [ADFrequency |-> 0, NumDSPChannels |-> 0, NumEventChannels |-> 0,
           NumSlowChannels |-> 0]
  /\ slowheaders = << >>
  /\ db = [i \in 1..HeaderSize |-> junk]
  /\ buf = << >>
  /\ datastart = 0 /\ nbuf = 0 /\ count = 0
  /\ channel_to_extract = 0 /\ unit_to_extract = 0 /\ event_to_extract = 0
  /\ ad = [header_num |-> -1, gain |-> 0, adfreq |-> 0, ticks_in_adcycle |-> 0,
           first_timestamp |-> -1]
  /\ out = [s \in 1..4 |-> << >>]
  /\ hist = << >>

\* main() up to the first scan: the file header, the channel headers,
\* datastart, and the query of SAMPLE 1
ReadHeaders ==
  /\ pc = "open"
  /\ fh' = [ADFrequency |-> file.fh.ADFrequency,
            NumDSPChannels |-> file.fh.NumDSPChannels,
            NumEventChannels |-> file.fh.NumEventChannels,
            NumSlowChannels |-> file.fh.NumSlowChannels]
  /\ fp' = ReadTables(file, Fread(file, fp, FileHeaderSize), fh')
  /\ slowheaders' = ReadSlowHeaders(file,
                       AfterEventHeaders(file, Fread(file, fp, FileHeaderSize), fh'), fh')
  /\ datastart' = DataStart(fh')
  /\ channel_to_extract' = 1
  /\ unit_to_extract' = 1
  /\ count' = 1
  /\ pc' = "sample1"
  /\ UNCHANGED << file, db, buf, junk, nbuf, event_to_extract, ad, out, hist >>

\* ------------------------------------------------------------- the scans

\* while(feof(fp) == 0 && fread(&db, sizeof(db), 1, fp) == 1)
HeaderReadAt(p) == ~p.eof /\ FreadGot(file, p, HeaderSize) = HeaderSize

HeaderRead == HeaderReadAt(fp)

\* nbuf: 0, or NumberOfWaveforms*NumberOfWordsInWaveform when there are waveforms
PayloadWords(d) ==
  IF NumberOfWaveforms(d) > 0
  THEN NumberOfWaveforms(d) * NumberOfWordsInWaveform(d) ELSE 0

\* (a reader that takes nbuf for a count of bytes)
PayloadBytesAsWords(d) == PayloadWords(d)

\* the size of the waveform read, fread(buf, nbuf*2, 1, fp)
PayloadBytes(d) == PayloadWords(d) * 2

\* The head of every loop body: the block header is in db, and the waveform,
\* when NumberOfWaveforms > 0, is read to buf.  The result of that fread is
\* not looked at.
ReadBlockAt(p, b) ==
  LET d == FileBytes(file, p.pos, HeaderSize)
      p1 == Fread(file, p, HeaderSize)
      wf == NumberOfWaveforms(d) > 0
      got == IF wf THEN FreadGot(file, p1, PayloadBytes(d)) ELSE 0
  IN [at |-> p.pos, db |-> d, nbuf |-> PayloadWords(d), got |-> got,
      short |-> wf /\ (PayloadBytes(d) < 0 \/ got < PayloadBytes(d)),
      fp |-> IF wf THEN Fread(file, p1, PayloadBytes(d)) ELSE p1,
      buf |-> IF wf THEN Store(b, FileBytes(file, p1.pos, got)) ELSE b]

ReadBlock == ReadBlockAt(fp, buf)

\* one loop iteration, as the scan's history keeps it
Iteration(r, emitted) ==
  [at |-> r.at, db |-> r.db, nbuf |-> r.nbuf, got |-> r.got, short |-> r.short,
   end |-> r.fp.pos, emitted |-> emitted]

\* (a test that forgets the unit)
SpikeMatchAnyUnit(d) ==
  Type(d) = PL_SingleWFType /\ Channel(d) = channel_to_extract

\* the tests of the four loop bodies
SpikeMatch(d) ==
  /\ Type(d) = PL_SingleWFType
  /\ Channel(d) = channel_to_extract /\ Unit(d) = unit_to_extract

WaveformMatch(d, n) ==
  /\ Type(d) = PL_SingleWFType /\ n > 0
  /\ Channel(d) = channel_to_extract /\ Unit(d) = unit_to_extract

EventMatch(d) == Type(d) = PL_ExtEventType /\ Channel(d) = event_to_extract

ADMatch(d) == Type(d) = PL_ADDataType /\ Channel(d) = channel_to_extract

\* the ticks printed with "%d": db.TimeStamp, a signed 32-bit long.  (The
\* seconds printed beside them are these ticks over fh.ADFrequency.)
Ticks(d) == TimeStamp(d)

\* for(i=0; i<db.NumberOfWordsInWaveform; i++): the values of i, from 1
SampleIndexes(d) == 1..NumberOfWordsInWaveform(d)

\* SAMPLE 2's waveform line: buf[0] .. buf[NumberOfWordsInWaveform-1]
WaveformLine(d, b) == [i \in SampleIndexes(d) |-> BufShort(b, i - 1)]

\* SAMPLE 4's lines for one block: the a/d value buf[i], its voltage
\* (buf[i]*5./2048.)/gain as a fraction, and ts = TimeStamp + i*ticks_in_adcycle
SampleLines(d, b) ==
  [i \in SampleIndexes(d) |->
     [raw |-> BufShort(b, i - 1),
      vnum |-> BufShort(b, i - 1) * 5, vden |-> 2048 * ad.gain,
      ts |-> TimeStamp(d) + (i - 1) * ad.ticks_in_adcycle]]

\* SAMPLE 4's lines for one block: the first data point, once, and the samples
FirstLine(d, first, cnt) ==
  IF ADMatch(d) /\ first = -1 THEN << [first |-> cnt, ticks |-> Ticks(d)] >> ELSE << >>

BlockLines(d, b) == IF ADMatch(d) THEN SampleLines(d, b) ELSE << >>

\* the lines SAMPLE 4's loop prints from a FILE*, a buf, a first_timestamp
\* and a count
RECURSIVE Continuous(_, _, _, _)
Continuous(p, b, first, cnt) ==
  IF ~HeaderReadAt(p) THEN << >>
  ELSE LET r == ReadBlockAt(p, b)
       IN FirstLine(r.db, first, cnt) \o BlockLines(r.db, r.buf)
            \o Continuous(r.fp, r.buf,
                          IF ADMatch(r.db) /\ first = -1 THEN TimeStamp(r.db) ELSE first,
                          IF ADMatch(r.db) THEN cnt + 1 ELSE cnt)

\* What the language leaves undefined in an iteration: the fread writes past
\* the end of buf, or the loop over the waveform reads buf past its end.
Overrun(r) == r.got > 2 * BufCap

IndexPastEnd(r) ==
  /\ NumberOfWordsInWaveform(r.db) > BufCap
  /\ \/ pc = "sample2" /\ WaveformMatch(r.db, r.nbuf)
     \/ pc = "sample4" /\ ADMatch(r.db)

\* SAMPLE 1: the timestamps of a spike channel
Sample1Step ==
  /\ pc = "sample1" /\ HeaderRead
  /\ LET r == ReadBlock
         hit == SpikeMatch(r.db)
     IN /\ db' = r.db /\ nbuf' = r.nbuf /\ buf' = r.buf /\ fp' = r.fp
        /\ out' = IF hit
                  THEN [out EXCEPT ![1] =
                          Append(@, [count |-> count, ticks |-> Ticks(r.db)])]
                  ELSE out
        /\ count' = IF hit THEN count + 1 ELSE count
        /\ hist' = Append(hist, Iteration(r, IF hit THEN 1 ELSE 0))
  /\ UNCHANGED << pc, file, fh, slowheaders, junk, datastart, channel_to_extract,
                  unit_to_extract, event_to_extract, ad >>

\* SAMPLE 2: the waveforms of a spike channel
Sample2Step ==
  /\ pc = "sample2" /\ HeaderRead
  /\ LET r == ReadBlock
         hit == WaveformMatch(r.db, r.nbuf)
     IN /\ db' = r.db /\ nbuf' = r.nbuf /\ buf' = r.buf /\ fp' = r.fp
        /\ out' = IF hit
                  THEN [out EXCEPT ![2] =
                          Append(@, [count |-> count, ticks |-> Ticks(r.db),
                                     waveform |-> WaveformLine(r.db, r.buf)])]
                  ELSE out
        /\ count' = IF hit THEN count + 1 ELSE count
        /\ hist' = Append(hist, Iteration(r, IF hit THEN 1 ELSE 0))
  /\ UNCHANGED << pc, file, fh, slowheaders, junk, datastart, channel_to_extract,
                  unit_to_extract, event_to_extract, ad >>

\* SAMPLE 3: the timestamps of an external event channel
Sample3Step ==
  /\ pc = "sample3" /\ HeaderRead
  /\ LET r == ReadBlock
         hit == EventMatch(r.db)
     IN /\ db' = r.db /\ nbuf' = r.nbuf /\ buf' = r.buf /\ fp' = r.fp
        /\ out' = IF hit
                  THEN [out EXCEPT ![3] =
                          Append(@, [count |-> count, ticks |-> Ticks(r.db)])]
                  ELSE out
        /\ count' = IF hit THEN count + 1 ELSE count
        /\ hist' = Append(hist, Iteration(r, IF hit THEN 1 ELSE 0))
  /\ UNCHANGED << pc, file, fh, slowheaders, junk, datastart, channel_to_extract,
                  unit_to_extract, event_to_extract, ad >>

\* SAMPLE 4: the continuous data of an a/d channel
Sample4Step ==
  /\ pc = "sample4" /\ HeaderRead
  /\ LET r == ReadBlock
         hit == ADMatch(r.db)
         first == FirstLine(r.db, ad.first_timestamp, count)
         lines == BlockLines(r.db, r.buf)
     IN /\ db' = r.db /\ nbuf' = r.nbuf /\ buf' = r.buf /\ fp' = r.fp
        /\ out' = [out EXCEPT ![4] = @ \o first \o lines]
        /\ ad' = IF hit /\ ad.first_timestamp = -1
                 THEN [ad EXCEPT !.first_timestamp = TimeStamp(r.db)] ELSE ad
        /\ count' = IF hit THEN count + 1 ELSE count
        /\ hist' = Append(hist, Iteration(r, Len(lines)))
  /\ UNCHANGED << pc, file, fh, slowheaders, junk, datastart, channel_to_extract,
                  unit_to_extract, event_to_extract >>

\* An iteration with undefined behaviour may also end the program there.
Undefined ==
  /\ pc \in Scans /\ HeaderRead
  /\ Overrun(ReadBlock) \/ IndexPastEnd(ReadBlock)
  /\ pc' = "crashed"
  /\ UNCHANGED << file, fp, fh, slowheaders, db, buf, junk, datastart, nbuf, count,
                  channel_to_extract, unit_to_extract, event_to_extract, ad, out,
                  hist >>

\* db after the loop test fails: the fread that finds less than a header
\* leaves the bytes it got in db
LastRead == IF fp.eof THEN db ELSE Store(db, FileBytes(file, fp.pos, FreadGot(file, fp, HeaderSize)))

\* from SAMPLE 1 to SAMPLE 2: the same query, the file rewound to datastart
EndSample1 ==
  /\ pc = "sample1" /\ ~HeaderRead
  /\ db' = LastRead
  /\ channel_to_extract' = 1 /\ unit_to_extract' = 1 /\ count' = 1
  /\ fp' = Fseek(datastart)
  /\ hist' = << >>
  /\ pc' = "sample2"
  /\ UNCHANGED << file, fh, slowheaders, buf, junk, datastart, nbuf,
                  event_to_extract, ad, out >>

\* from SAMPLE 2 to SAMPLE 3
EndSample2 ==
  /\ pc = "sample2" /\ ~HeaderRead
  /\ db' = LastRead
  /\ event_to_extract' = 1 /\ count' = 1
  /\ fp' = Fseek(datastart)
  /\ hist' = << >>
  /\ pc' = "sample3"
  /\ UNCHANGED << file, fh, slowheaders, buf, junk, datastart, nbuf,
                  channel_to_extract, unit_to_extract, ad, out >>

\* the first slow channel header of the channel, or -1
FindHeader(chan) ==
  LET found == { i \in 0..(fh.NumSlowChannels - 1) : slowheaders[i + 1].Channel = chan }
  IN IF found = {} THEN -1 ELSE CHOOSE i \in found : \A j \in found : i <= j

\* From SAMPLE 3 to SAMPLE 4: a/d channel 0, the file rewound, the channel's
\* header found and its gain and frequency read; exit(1) without them.
EndSample3 ==
  /\ pc = "sample3" /\ ~HeaderRead
  /\ db' = LastRead
  /\ channel_to_extract' = 0 /\ count' = 1
  /\ fp' = Fseek(datastart)
  /\ hist' = << >>
  /\ LET n == FindHeader(0)
         gain == slowheaders[n + 1].Gain
         adfreq == slowheaders[n + 1].ADFreq
     IN IF n = -1
        THEN pc' = "exit" /\ ad' = [ad EXCEPT !.header_num = n]
        ELSE IF adfreq = 0 \/ gain = 0
        THEN pc' = "exit"
             /\ ad' = [ad EXCEPT !.header_num = n, !.gain = gain, !.adfreq = adfreq]
        ELSE pc' = "sample4"
             /\ ad' = [header_num |-> n, gain |-> gain, adfreq |-> adfreq,
                       ticks_in_adcycle |-> CDiv(fh.ADFrequency, adfreq),
                       first_timestamp |-> -1]
  /\ UNCHANGED << file, fh, slowheaders, buf, junk, datastart, nbuf,
                  unit_to_extract, event_to_extract, out >>

\* the end of SAMPLE 4: fclose(fp)
EndSample4 ==
  /\ pc = "sample4" /\ ~HeaderRead
  /\ db' = LastRead
  /\ fp' = [fp EXCEPT !.eof = fp.eof \/ FreadGot(file, fp, HeaderSize) < HeaderSize,
                      !.pos = IF fp.eof THEN fp.pos ELSE fp.pos + FreadGot(file, fp, HeaderSize)]
  /\ pc' = "done"
  /\ UNCHANGED << file, fh, slowheaders, buf, junk, datastart, nbuf, count,
                  channel_to_extract, unit_to_extract, event_to_extract, ad, out,
                  hist >>

Next ==
  \/ ReadHeaders
  \/ Sample1Step \/ EndSample1
  \/ Sample2Step \/ EndSample2
  \/ Sample3Step \/ EndSample3
  \/ Sample4Step \/ EndSample4
  \/ Undefined

Spec == Init /\ [][Next]_vars

Ended == pc \in {"done", "exit", "crashed"}

\* ================================================================ claims

\* the iteration a scan has just made
Last == hist[Len(hist)]

\* A number too wide for one machine word, as << n \div 2^16, n % 2^16 >>.
Wide(n) == << n \div 65536, n % 65536 >>

WideAdd(w, k) == << w[1] + (w[2] + k) \div 65536, (w[2] + k) % 65536 >>

\* the 40-bit timestamp of a block header: the upper byte, then the four
\* bytes of TimeStamp read as unsigned
Timestamp40(d) ==
  << (UpperByteOf5ByteTimestamp(d) % 256) * 65536 + d[7] + 256 * d[8],
     d[5] + 256 * d[6] >>

\* the shorts in a sequence of bytes
DecWords(bytes) ==
  [i \in 1..(Len(bytes) \div 2) |-> DecShort(bytes[2 * i - 1], bytes[2 * i])]

\* the count and ticks of the lines a spike scan has printed
Yielded(s) == [k \in 1..Len(out[s]) |-> [count |-> out[s][k].count, ticks |-> out[s][k].ticks]]

\* the lines that a sequence of iterations is to yield, one each
OnePerBlock(sel) == [k \in 1..Len(sel) |-> [count |-> k, ticks |-> TimeStamp(sel[k].db)]]

\* ---- C1
\* C1 (as claimed): a block whose waveform is cut short by the end of the
\* file yields no record, is the last block of its scan, and the scan ends.
C1_TruncatedBlockYieldsNothing ==
  pc \in Scans =>
    \A k \in 1..Len(hist) :
      (hist[k].short /\ hist[k].nbuf > 0) =>
        hist[k].emitted = 0 /\ k = Len(hist) /\ ~HeaderRead

\* ---- C2
\* C2: between two header reads the cursor moves by the header and, when
\* NumberOfWaveforms > 0 and the waveform is in the file in full, by
\* 2 * NumberOfWaveforms * NumberOfWordsInWaveform bytes more; by the header
\* alone when NumberOfWaveforms is 0; whatever the block's type.
C2_CursorAdvance ==
  pc \in Scans =>
    \A k \in 1..Len(hist) :
      LET e == hist[k]
          nwf == NumberOfWaveforms(e.db)
          nw == NumberOfWordsInWaveform(e.db)
      IN /\ k > 1 => e.at = hist[k - 1].end
         /\ (nwf > 0 /\ ~e.short) => e.end = e.at + HeaderSize + 2 * nwf * nw
         /\ nwf = 0 => e.end = e.at + HeaderSize

\* a block of two waveforms was read in full and the next header after it
C2_Witness ==
  /\ pc \in Scans
  /\ \E k \in 1..(Len(hist) - 1) :
       NumberOfWaveforms(hist[k].db) > 1 /\ ~hist[k].short

\* ---- C3
\* the offset C3 names
DataStartOffset ==
  FileHeaderSize + fh.NumDSPChannels * ChanHeaderSize
    + fh.NumEventChannels * EventHeaderSize
    + fh.NumSlowChannels * SlowHeaderSize

CursorAtDataStart ==
  /\ (pc = "sample1" /\ hist = << >>) => fp.pos = DataStartOffset
  /\ (pc \in Scans /\ hist # << >>) => hist[1].at = DataStartOffset

SpikeOfQuery(e) ==
  /\ Type(e.db) = PL_SingleWFType
  /\ Channel(e.db) = channel_to_extract /\ Unit(e.db) = unit_to_extract

WaveformOfQuery(e) == SpikeOfQuery(e) /\ e.nbuf > 0

\* C6 (as claimed): both spike scans yield one record for each block of
\* type spike, of the channel and of the unit, in file order, also for a
\* block without waveform.
C6_Original ==
  /\ pc = "sample1" => Yielded(1) = OnePerBlock(SelectSeq(hist, SpikeOfQuery))
  /\ pc = "sample2" => Yielded(2) = OnePerBlock(SelectSeq(hist, SpikeOfQuery))

\* C6 (amended): SAMPLE 1 does; SAMPLE 2 yields one record for each such
\* block whose NumberOfWaveforms and NumberOfWaveforms*NumberOfWordsInWaveform
\* are positive, with the first NumberOfWordsInWaveform values of the
\* waveform when the file holds the waveform in full.
C6_SpikeQuery ==
  /\ pc = "sample1" => Yielded(1) = OnePerBlock(SelectSeq(hist, SpikeOfQuery))
  /\ pc = "sample2" =>
       LET sel == SelectSeq(hist, WaveformOfQuery)
       IN /\ Yielded(2) = OnePerBlock(sel)
          /\ \A k \in 1..Len(sel) :
               ~sel[k].short =>
                 out[2][k].waveform =
                   DecWords(FileBytes(file, sel[k].at + HeaderSize,
                                      2 * NumberOfWordsInWaveform(sel[k].db)))

\* SAMPLE 1 printed two spikes, and SAMPLE 2 has passed a spike of the query
\* that has no waveform and printed one that has
C6_Witness ==
  /\ pc = "sample2" /\ Len(out[1]) >= 2 /\ Len(out[2]) >= 1
  /\ \E k \in 1..Len(hist) : SpikeOfQuery(hist[k]) /\ hist[k].nbuf = 0

\* ---- C9
\* the cursor's bound in a scan: the end of the file, or where the scan began
\* if that is further
CursorBound == IF FileLen(file) > datastart THEN FileLen(file) ELSE datastart

\* C9: every scan ends.  Each iteration moves the cursor on by a block
\* header at least, and the cursor stays within the file, so a scan that
\* began at offset s makes at most (length - s) / HeaderSize iterations; a
\* scan goes on only after a header read in full with end-of-file not set,
\* and with end-of-file set or less than a header left it ends; whatever the
\* blocks hold.
C9_ScansTerminate ==
  /\ [](pc \in Scans =>
         /\ fp.pos <= CursorBound
         /\ hist # << >> => hist[1].at + Len(hist) * HeaderSize <= fp.pos)
  /\ [][(pc \in Scans /\ pc' = pc) =>
          /\ fp'.pos >= fp.pos + HeaderSize
          /\ ~fp.eof /\ fp.pos + HeaderSize <= FileLen(file)]_vars
  /\ [][(pc \in Scans /\ (fp.eof \/ fp.pos + HeaderSize > FileLen(file))) =>
          pc' # pc]_vars

\* the program is done after a last scan over a block of negative
\* NumberOfWaveforms and one of negative NumberOfWordsInWaveform
C9_Witness ==
  /\ pc = "done"
  /\ \E k \in 1..Len(hist) : NumberOfWaveforms(hist[k].db) < 0
  /\ \E k \in 1..Len(hist) : NumberOfWordsInWaveform(hist[k].db) < 0

\* ---- C4
\* C4 (as claimed): a query run again from datastart prints what it printed,
\* whatever the runs before it left in buf: here SAMPLE 4, against the same
\* loop from a buf that no scan has written.
C4_OutputIndependentOfEarlierScans ==
  pc = "done" => out[4] = Continuous(Fseek(datastart), << >>, -1, 1)

\* ---- C5
\* C5 (as claimed): the ticks printed for a block are its 40-bit timestamp,
\* the upper byte above the four bytes of TimeStamp read as unsigned.
C5_Timestamp40 ==
  \A s \in 1..3 :
    (pc = <<"sample1", "sample2", "sample3">>[s] /\ hist # << >> /\ Last.emitted = 1) =>
      Wide(out[s][Len(out[s])].ticks) = Timestamp40(Last.db)

\* ---- C7
\* the lines of the block SAMPLE 4 has just read
LastLines == SubSeq(out[4], Len(out[4]) - Last.emitted + 1, Len(out[4]))

\* C7 (as claimed): for an a/d block of the channel, held in full, SAMPLE 4
\* prints for each i below the sample count NumberOfWaveforms *
\* NumberOfWordsInWaveform the timestamp of the block plus i times
\* ADFrequency div adfreq, in the order of i.
C7_SampleTimestamps ==
  (pc = "sample4" /\ hist # << >> /\ ADMatch(Last.db) /\ ~Last.short) =>
    /\ Last.emitted = Last.nbuf
    /\ \A i \in 1..Last.emitted :
         Wide(LastLines[i].ts) =
           WideAdd(Timestamp40(Last.db), (i - 1) * (fh.ADFrequency \div ad.adfreq))

\* ---- C8
\* C8 (as claimed): for an a/d block of the channel, held in full, SAMPLE 4
\* prints as many samples as were read for it: NumberOfWaveforms *
\* NumberOfWordsInWaveform, none when NumberOfWaveforms is 0.
C8_SampleCount ==
  pc = "sample4" =>
    \A k \in 1..Len(hist) :
      (ADMatch(hist[k].db) /\ ~hist[k].short) => hist[k].emitted = hist[k].nbuf

\* ---- C10
\* C10 (as claimed): no fread of a scan puts more than BufCap samples in
\* buf, and no waveform loop reads buf at an index of BufCap or more.
C10_WithinBuf ==
  pc \in Scans =>
    \A k \in 1..Len(hist) :
      /\ hist[k].got <= 2 * BufCap
      /\ (pc \in {"sample2", "sample4"} /\ hist[k].emitted > 0) =>
           NumberOfWordsInWaveform(hist[k].db) <= BufCap

====
